---- MODULE Spec2Model ----
(***************************************************************************)
(* DayZ map downloader (src/main.py): the bounded-concurrency tile fetch   *)
(* pipeline (download_tile under an asyncio.Semaphore, download_all_tiles  *)
(* gathering the tasks with fail-fast cancellation) and the resolution     *)
(* driver (main: download, glue_tiles, shutil.rmtree per resolution).      *)
(***************************************************************************)
EXTENDS Integers, Sequences, FiniteSets, TLC

\* ---------------------------------------------------------------- bounds
\* Largest grid_size (2 ** resolution) the model explores.
MaxGridSize == 2
\* How many times the program is run on the same disk (a run and its re-runs).
MaxRuns == 2

\* ------------------------------------------------------ program constants
MAX_CONCURRENT == 64

\* Gate capacities explored: the program's own MAX_CONCURRENT and the small
\* values under which the tasks of a small grid contend for permits.
Capacities == {1, 2, 4, MAX_CONCURRENT}

\* Python's None for an optional argument is the empty tuple, a value is <<v>>;
\* an absent file is the empty tuple too.
None == <<>>
NoFile == <<>>

RECURSIVE Pow2(_)
Pow2(r) == IF r = 0 THEN 1 ELSE 2 * Pow2(r - 1)

\* The resolutions whose grid fits the bound.
Resolutions == {r \in 0..MaxGridSize : Pow2(r) <= MaxGridSize}

MaxResolution == CHOOSE r \in Resolutions : \A q \in Resolutions : q <= r

\* range(n), and range(a, b), as sequences.
Range(n) == [i \in 1..n |-> i - 1]
RangeFromTo(a, b) == [i \in 1..(IF b > a THEN b - a ELSE 0) |-> a + i - 1]

RECURSIVE Flatten(_)
Flatten(ss) == IF ss = <<>> THEN <<>> ELSE Head(ss) \o Flatten(Tail(ss))

\* ------------------------------------------------------- paths and URLs
\* A path string is the sequence of its pieces: the separator and the names
\* between separators. "tmp" is <<Name("tmp")>>, "" is <<>>, "tmp/" is
\* <<Name("tmp"), SEP>>.
SEP == <<"/">>
Name(str) == <<str>>
\* f"{game_version}_{map_type}_{resolution}x{resolution}", str(x), f"{y}.webp"
DirName(game_version, map_type, resolution) ==
    <<game_version, map_type, resolution, resolution>>
Str(x) == <<"str", x>>
Webp(y) == <<"webp", y>>

\* os.path.join(a, b) on POSIX: an absolute b replaces a; a separator is put
\* between the two unless a is empty or ends with one.
Join(a, b) ==
    IF b # <<>> /\ b[1] = SEP THEN b
    ELSE IF a = <<>> \/ a[Len(a)] = SEP THEN a \o b
    ELSE a \o <<SEP>> \o b

\* The file a path string names: looked up from the root when the string
\* starts with a separator and from the working directory (not the root)
\* otherwise, through its names; repeated separators count as one.
File(path) ==
    <<IF path # <<>> /\ path[1] = SEP THEN "/" ELSE ".",
      SelectSeq(path, LAMBDA piece : piece # SEP)>>

\* f"{target_dir}/{game_version}_{map_type}_{resolution}x{resolution}"
OutDir(target_dir, game_version, map_type, resolution) ==
    target_dir \o <<SEP>> \o <<DirName(game_version, map_type, resolution)>>

\* os.path.join(os.path.join(out_dir, str(x)), f"{y}.webp")
OutPath(out_dir, x, y) == Join(Join(out_dir, <<Str(x)>>), <<Webp(y)>>)

\* os.path.join(args.tmp_dir, f'{args.version}_{args.map_type}_{res}x{res}')
CurrentMapTilesDir(a, res) ==
    Join(a.tmp_dir, <<DirName(a.version, a.map_type, res)>>)

\* os.path.join(tiles_dir, str(x), f"{y}.webp")
GlueTilePath(tiles_dir, x, y) == Join(Join(tiles_dir, <<Str(x)>>), <<Webp(y)>>)

\* The URL of a tile, and the body the tile source serves for it.
Url(game_version, map_type, resolution, x, y) ==
    <<game_version, map_type, resolution, x, y>>
BodyOf(url) == <<"webp", url>>
\* What open(out_path, "wb") followed by an unfinished f.write(data) leaves.
Truncated(data) == <<"truncated", data[2]>>

\* f"{map_type}_{game_version}_{grid_size}x{grid_size}.webp"
AtlasPath(game_version, map_type, grid_size) ==
    <<map_type, game_version, grid_size, grid_size>>

\* The command lines explored: --version and --map-type are required;
\* --resolution and --resolution-range are optional.
GameVersion == "1.27"
MapType == "satellite"
\* --tmp-dir: its default "tmp" (line 153), and "" and "tmp/".
DefaultTmpDir == <<Name("tmp")>>
TmpDirs == {DefaultTmpDir, <<>>, <<Name("tmp"), SEP>>}
CommandLine(r, rr) ==
    [version |-> GameVersion, map_type |-> MapType,
     resolution |-> r, resolution_range |-> rr, tmp_dir |-> DefaultTmpDir]
ArgChoices ==
    { CommandLine(r, None) : r \in {None} \cup {<<q>> : q \in Resolutions} }
    \cup { CommandLine(None, <<0, MaxResolution>>) }

\* The files the default tmp_dir can hold: the tiles of this version and map
\* type at each resolution, and one tile cached for another game version.
ForeignPath == File(OutPath(OutDir(DefaultTmpDir, "1.26", MapType, 0), 0, 0))
Coordinates ==
    { k \in Resolutions \X (0..(MaxGridSize - 1)) \X (0..(MaxGridSize - 1)) :
        k[2] < Pow2(k[1]) /\ k[3] < Pow2(k[1]) }
TilePaths ==
    { File(OutPath(OutDir(DefaultTmpDir, GameVersion, MapType, k[1]), k[2], k[3])) :
        k \in Coordinates } \cup {ForeignPath}
\* Every file the explored command lines can write or read: where
\* download_tile stores a tile and where glue_tiles looks for it.
AllFiles ==
    TilePaths
    \cup { File(OutPath(OutDir(d, GameVersion, MapType, k[1]), k[2], k[3])) :
             d \in TmpDirs, k \in Coordinates }
    \cup { File(GlueTilePath(Join(d, <<DirName(GameVersion, MapType, k[1])>>), k[2], k[3])) :
             d \in TmpDirs, k \in Coordinates }
\* The key of a tile file, from its last three names: the directory of
\* (version, map type, resolution), str(x) and f"{y}.webp".
KeyOf(f) ==
    LET n == Len(f[2])
    IN  [dir |-> f[2][n - 2], x |-> f[2][n - 1][2], y |-> f[2][n][2]]
UrlOfFile(f) ==
    LET k == KeyOf(f) IN Url(k.dir[1], k.dir[2], k.dir[3], k.x, k.y)
\* What a complete file holds: the body served for the file's key.
FileBody(f) == BodyOf(UrlOfFile(f))

VARIABLES
    args,         \* the parsed command line
    capacity,     \* the gate capacity, Semaphore(capacity)
    runNo,        \* which run of the program on this disk
    pc,           \* where main() is
    resolutions,  \* main: the sequence iterated by the for loop
    resIdx,       \* main: position in resolutions (1-based)
    tasks,        \* download_all_tiles: the tile tasks, in creation order
    started,      \* how many tasks have run their first step
    sem,          \* Semaphore._value
    waiters,      \* Semaphore._waiters: tasks queued in acquire()
    completionQ,  \* finished tasks not yet seen by gather, in completion order
    nresults,     \* results gather has collected (the progress counter)
    error,        \* the exception raised out of the grid run, or None
    cache,        \* the disk: file -> file body, or NoFile
    atlases,      \* out_dir: the atlas files saved
    requests,     \* instrumentation: URLs requested (GET) by the current grid run
    cacheAtStart, \* instrumentation: cache when the current grid run started
    cancelCalls,  \* instrumentation: times the except branch cancelled the tasks
    firstFailure  \* instrumentation: the first task of the grid run that failed

vars == <<args, capacity, runNo, pc, resolutions, resIdx, tasks, started, sem,
          waiters, completionQ, nresults, error, cache, atlases, requests,
          cacheAtStart, cancelCalls, firstFailure>>

gridVars == <<tasks, started, sem, waiters, completionQ, nresults, requests,
              cacheAtStart, cancelCalls, firstFailure>>

\* Every file of an initial tmp_dir is a complete tile written by an earlier run.
InitCaches ==
    { [p \in AllFiles |-> IF p \in S THEN FileBody(p) ELSE NoFile] :
        S \in SUBSET TilePaths }

InitOf(commandLines) ==
    /\ args \in commandLines
    /\ capacity \in Capacities
    /\ runNo = 1
    /\ pc = "main"
    /\ resolutions = <<>>
    /\ resIdx = 1
    /\ tasks = <<>>
    /\ started = 0
    /\ sem = capacity
    /\ waiters = <<>>
    /\ completionQ = <<>>
    /\ nresults = 0
    /\ error = None
    /\ cache \in InitCaches
    /\ atlases = {}
    /\ requests = {}
    /\ cacheAtStart = cache
    /\ cancelCalls = 0
    /\ firstFailure = 0

Init == InitOf(ArgChoices)

\* ------------------------------------------------------------ main()
\* `not v` of an optional int (None and 0 are falsy) and of an optional list.
NotInt(v) == v = None \/ v = <<0>>
NotList(v) == v = None

\* main, up to the for loop: the pre-flight check and the resolutions to run.
Main ==
    /\ pc = "main"
    /\ IF NotInt(args.resolution) /\ NotList(args.resolution_range)
       THEN /\ pc' = "SystemExit"
            /\ UNCHANGED resolutions
       ELSE /\ pc' = "for"
            /\ resolutions' =
                 IF ~NotList(args.resolution_range)
                 THEN RangeFromTo(args.resolution_range[1], args.resolution_range[2] + 1)
                 ELSE <<args.resolution[1]>>
    /\ resIdx' = 1
    /\ UNCHANGED <<args, capacity, runNo, error, cache, atlases>>
    /\ UNCHANGED gridVars

\* A created task: the coroutine download_tile(sem, dir, session, ..., x, y),
\* not yet run.
NewTask(resolution, x, y) ==
    [resolution |-> resolution, x |-> x, y |-> y,
     state |-> "created", outcome |-> "", cancel |-> FALSE, response |-> ""]

\* Mutant of TaskList: x and y advance together instead of nesting.
TaskListZipped(resolution) ==
    LET xs == Range(Pow2(resolution))
    IN  [i \in 1..Len(xs) |-> NewTask(resolution, xs[i], xs[i])]

\* tasks = [create_task(download_tile(..., x, y))
\*          for x in range(grid_size) for y in range(grid_size)]
TaskList(resolution) ==
    LET grid_size == Pow2(resolution)
        xs == Range(grid_size)
        ys == Range(grid_size)
    IN  Flatten([i \in 1..Len(xs) |->
                   [j \in 1..Len(ys) |-> NewTask(resolution, xs[i], ys[j])]])

\* The for loop of main: the next resolution enters download_all_tiles (a
\* fresh semaphore, the tasks created, gather awaited), or the loop ends.
\* The semaphore is Semaphore(MAX_CONCURRENT); capacity stands for that
\* module constant, drawn from Capacities in Init.
DownloadAllTiles ==
    /\ pc = "for"
    /\ IF resIdx > Len(resolutions)
       THEN /\ pc' = "exit"
            /\ UNCHANGED gridVars
       ELSE /\ pc' = "gather"
            /\ tasks' = TaskList(resolutions[resIdx])
            /\ started' = 0
            /\ sem' = capacity
            /\ waiters' = <<>>
            /\ completionQ' = <<>>
            /\ nresults' = 0
            /\ requests' = {}
            /\ cacheAtStart' = cache
            /\ cancelCalls' = 0
            /\ firstFailure' = 0
    /\ UNCHANGED <<args, capacity, runNo, resolutions, resIdx, error, cache, atlases>>

\* ---------------------------------------------------- asyncio.Semaphore
\* The waiter's future is pending: not woken, not cancelled.
Pending(ts, w) == ts[w].state = "waiting" /\ ~ts[w].cancel

\* Mutant of Locked: the permit count is tested off by one.
LockedOffByOne(ts, v, ws) ==
    v < 0 \/ \E i \in 1..Len(ws) : ~(ts[ws[i]].state = "waiting" /\ ts[ws[i]].cancel)

\* Semaphore.locked(): no permit left, or a waiter whose future is not cancelled.
Locked(ts, v, ws) ==
    v = 0 \/ \E i \in 1..Len(ws) : ~(ts[ws[i]].state = "waiting" /\ ts[ws[i]].cancel)

\* The first waiter whose future is not done, or 0.
FirstPending(ts, ws) ==
    IF \E i \in 1..Len(ws) : Pending(ts, ws[i])
    THEN ws[CHOOSE i \in 1..Len(ws) :
              Pending(ts, ws[i]) /\ \A j \in 1..(i - 1) : ~Pending(ts, ws[j])]
    ELSE 0

\* Mutant of WakeUpNext: a released permit wakes no waiter.
WakeUpNobody(ts, v, ws) == [tasks |-> ts, sem |-> v]

\* Semaphore._wake_up_next(): hand a permit to the first pending waiter.
WakeUpNext(ts, v, ws) ==
    LET w == FirstPending(ts, ws)
    IN  IF w = 0
        THEN [tasks |-> ts, sem |-> v]
        ELSE [tasks |-> [ts EXCEPT ![w].state = "woken"], sem |-> v - 1]

\* Mutant of Release: the permit is not given back.
ReleaseNothing(ts, v, ws) == [tasks |-> ts, sem |-> v]

\* Semaphore.release(), at the exit of `async with sem`.
Release(ts, v, ws) == WakeUpNext(ts, v + 1, ws)

Remove(ws, t) == SelectSeq(ws, LAMBDA w : w # t)

\* ------------------------------------------------------- download_tile
\* Mutant of Exists: the existence check never finds the file.
ExistsNever(c, path) == FALSE

\* os.path.exists(path)
Exists(c, path) == File(path) \in DOMAIN c /\ c[File(path)] # NoFile

\* Mutant of TaskOutPath: every tile of a column is stored under one name.
TaskOutPathOnePerColumn(task) ==
    OutPath(OutDir(args.tmp_dir, args.version, args.map_type, task.resolution),
            task.x, 0)

\* Mutant of TaskOutPath: the x directory and the y file name are swapped.
TaskOutPathSwapped(task) ==
    OutPath(OutDir(args.tmp_dir, args.version, args.map_type, task.resolution),
            task.y, task.x)

TaskOutPath(task) ==
    OutPath(OutDir(args.tmp_dir, args.version, args.map_type, task.resolution),
            task.x, task.y)
TaskUrl(task) == Url(args.version, args.map_type, task.resolution, task.x, task.y)

Terminated(task) == task.state \in {"done", "failed", "cancelled"}
InNetworkPhase(task) == task.state \in {"get", "read"}

\* Mutant of Finish: the task leaves without releasing its permit.
FinishKeepsPermit(ts, v, ws, t, state, outcome) ==
    [tasks |-> [ts EXCEPT ![t].state = state, ![t].outcome = outcome], sem |-> v]

\* The task returns (Skipped or Completed) or raises (failed, cancelled): it
\* leaves `async with sem`, which releases the permit.
Finish(ts, v, ws, t, state, outcome) ==
    Release([ts EXCEPT ![t].state = state, ![t].outcome = outcome], v, ws)

\* The gated body up to its first suspension, the permit held: the tile is
\* skipped when the file exists, or the GET is issued.
GatedBody(ts, v, ws, t) ==
    IF Exists(cache, TaskOutPath(ts[t]))
    THEN LET r == Finish(ts, v, ws, t, "done", "Skipped")
         IN  [tasks |-> r.tasks, sem |-> r.sem, requests |-> requests,
              completionQ |-> Append(completionQ, t)]
    ELSE [tasks |-> [ts EXCEPT ![t].state = "get"], sem |-> v,
          requests |-> requests \cup {TaskUrl(ts[t])},
          completionQ |-> completionQ]

\* The first step of the next created task: acquire() takes a permit at once
\* and the gated body runs, or the task queues as a waiter. The event loop
\* runs the first steps of the created tasks in creation order before it
\* polls for I/O, so every other step waits for started = Len(tasks).
\* Directories are not represented: os.makedirs(..., exist_ok=True) creates
\* no file and never fails on an existing directory.
StartTask ==
    /\ pc = "gather"
    /\ started < Len(tasks)
    /\ LET t == started + 1
       IN  /\ started' = t
           /\ IF ~Locked(tasks, sem, waiters)
              THEN LET r == GatedBody(tasks, sem - 1, waiters, t)
                   IN  /\ tasks' = r.tasks
                       /\ sem' = r.sem
                       /\ requests' = r.requests
                       /\ completionQ' = r.completionQ
                       /\ UNCHANGED waiters
              ELSE /\ tasks' = [tasks EXCEPT ![t].state = "waiting"]
                   /\ waiters' = Append(waiters, t)
                   /\ UNCHANGED <<sem, requests, completionQ>>
    /\ UNCHANGED <<args, capacity, runNo, pc, resolutions, resIdx, nresults, error,
                   cache, atlases, cacheAtStart, cancelCalls, firstFailure>>

\* A waiter whose future got its result resumes in acquire(): it leaves the
\* waiters, passes a spare permit on, and runs the gated body.
WokenStep(t) ==
    /\ started = Len(tasks)
    /\ tasks[t].state = "woken"
    /\ ~tasks[t].cancel
    /\ LET ws == Remove(waiters, t)
           w == IF sem > 0 THEN WakeUpNext(tasks, sem, ws)
                ELSE [tasks |-> tasks, sem |-> sem]
           r == GatedBody(w.tasks, w.sem, ws, t)
       IN  /\ waiters' = ws
           /\ tasks' = r.tasks
           /\ sem' = r.sem
           /\ requests' = r.requests
           /\ completionQ' = r.completionQ
    /\ UNCHANGED <<args, capacity, runNo, pc, resolutions, resIdx, started, nresults,
                   error, cache, atlases, cacheAtStart, cancelCalls, firstFailure>>

\* What the tile source can answer to the GET, and how the body read can end.
GetResponses == {"ok", "http_error", "bad_content_type", "timeout"}
ReadResults == {"ok", "timeout"}

\* Mutant of FailureOf: any 2xx answer is accepted whatever its content type.
FailureOfAnyContentType(resp) ==
    CASE resp = "http_error" -> "HttpStatus"
      [] resp = "timeout" -> "Timeout"
      [] OTHER -> ""

\* The reason a response makes the task raise, "" when it does not.
FailureOf(resp) ==
    CASE resp = "http_error" -> "HttpStatus"          \* r.raise_for_status()
      [] resp = "bad_content_type" -> "InvalidContentType"
      [] resp = "timeout" -> "Timeout"                \* ClientTimeout(total=30)
      [] OTHER -> ""

\* The task raises: it is failed, the permit is released, gather will see it.
TaskFails(ts, t, reason) ==
    LET r == Finish(ts, sem, waiters, t, "failed", reason)
    IN  /\ tasks' = r.tasks
        /\ sem' = r.sem
        /\ completionQ' = Append(completionQ, t)
        /\ firstFailure' = IF firstFailure = 0 THEN t ELSE firstFailure

\* session.get(url) answers: the status and the content type are checked and
\* the body read starts, or the task raises.
GetResponse(t, resp) ==
    /\ started = Len(tasks)
    /\ tasks[t].state = "get"
    /\ ~tasks[t].cancel
    /\ IF FailureOf(resp) = ""
       THEN /\ tasks' = [tasks EXCEPT ![t].state = "read", ![t].response = resp]
            /\ UNCHANGED <<sem, completionQ, firstFailure>>
       ELSE TaskFails([tasks EXCEPT ![t].response = resp], t, FailureOf(resp))
    /\ UNCHANGED <<args, capacity, runNo, pc, resolutions, resIdx, started, waiters,
                   nresults, error, cache, atlases, requests, cacheAtStart,
                   cancelCalls>>

\* open(out_path, "wb"); f.write(data)
WriteFile(c, path, data) == [c EXCEPT ![File(path)] = data]

\* r.read() ends: the body is written to out_path and the task returns, or
\* the task raises.
ReadDone(t, res) ==
    /\ started = Len(tasks)
    /\ tasks[t].state = "read"
    /\ ~tasks[t].cancel
    /\ IF FailureOf(res) = ""
       THEN LET r == Finish(tasks, sem, waiters, t, "done", "Completed")
            IN  /\ cache' = WriteFile(cache, TaskOutPath(tasks[t]), BodyOf(TaskUrl(tasks[t])))
                /\ tasks' = r.tasks
                /\ sem' = r.sem
                /\ completionQ' = Append(completionQ, t)
                /\ UNCHANGED firstFailure
       ELSE /\ TaskFails(tasks, t, FailureOf(res))
            /\ UNCHANGED cache
    /\ UNCHANGED <<args, capacity, runNo, pc, resolutions, resIdx, started, waiters,
                   nresults, error, atlases, requests, cacheAtStart, cancelCalls>>

\* Mutant of CancelDeliver: a task cancelled during its body read still
\* writes its file before it unwinds.
CancelDeliverAfterWrite(t) ==
    /\ started = Len(tasks)
    /\ tasks[t].cancel
    /\ ~Terminated(tasks[t])
    /\ LET ws == Remove(waiters, t)
           ts == [tasks EXCEPT ![t].state = "cancelled", ![t].outcome = "Cancelled"]
           r == IF tasks[t].state = "waiting"
                THEN [tasks |-> ts, sem |-> sem]
                ELSE Release(ts, sem, ws)
       IN  /\ waiters' = ws
           /\ tasks' = r.tasks
           /\ sem' = r.sem
    /\ cache' = IF tasks[t].state = "read"
                THEN WriteFile(cache, TaskOutPath(tasks[t]), BodyOf(TaskUrl(tasks[t])))
                ELSE cache
    /\ UNCHANGED <<args, capacity, runNo, pc, resolutions, resIdx, started,
                   completionQ, nresults, error, atlases, requests,
                   cacheAtStart, cancelCalls, firstFailure>>

\* A task whose cancellation was requested runs again: CancelledError is
\* thrown at its suspension point and it unwinds. A queued waiter leaves the
\* waiters; a woken waiter gives its permit back; a task in its network
\* phase leaves `async with sem`. gather has raised by then and nothing
\* reads the completion queue any more, so the task is not queued on it.
CancelDeliver(t) ==
    /\ started = Len(tasks)
    /\ tasks[t].cancel
    /\ ~Terminated(tasks[t])
    /\ LET ws == Remove(waiters, t)
           ts == [tasks EXCEPT ![t].state = "cancelled", ![t].outcome = "Cancelled"]
           r == IF tasks[t].state = "waiting"
                THEN [tasks |-> ts, sem |-> sem]
                ELSE Release(ts, sem, ws)
       IN  /\ waiters' = ws
           /\ tasks' = r.tasks
           /\ sem' = r.sem
    /\ UNCHANGED <<args, capacity, runNo, pc, resolutions, resIdx, started,
                   completionQ, nresults, error, cache, atlases, requests,
                   cacheAtStart, cancelCalls, firstFailure>>

\* -------------------------------------------------- download_all_tiles
\* Mutant of CancelAll: the except branch cancels nothing.
CancelNone(ts) == ts

\* t.cancel() for every task: a task that is not finished has cancellation
\* requested (delivered when it next runs); a finished task is unaffected.
CancelAll(ts) ==
    [i \in 1..Len(ts) |->
        IF Terminated(ts[i]) THEN ts[i] ELSE [ts[i] EXCEPT !.cancel = TRUE]]

\* Mutant of Observed: gather takes the newest finished task first.
ObservedNewest(q) == Len(q)

\* The place in the completion queue of the finished task gather takes next:
\* as_completed yields the tasks in the order they finished.
Observed(q) == 1

RemoveAt(q, i) == SubSeq(q, 1, i - 1) \o SubSeq(q, i + 1, Len(q))

\* The exception gather raises for a failed task.
ErrorOf(task) == <<task.x, task.y, task.outcome>>

\* gather takes the next finished task, a successful one: one more result.
GatherResult ==
    /\ pc = "gather"
    /\ started = Len(tasks)
    /\ completionQ # <<>>
    /\ tasks[completionQ[Observed(completionQ)]].state = "done"
    /\ completionQ' = RemoveAt(completionQ, Observed(completionQ))
    /\ nresults' = nresults + 1
    /\ UNCHANGED <<args, capacity, runNo, pc, resolutions, resIdx, tasks, started,
                   sem, waiters, error, cache, atlases, requests, cacheAtStart,
                   cancelCalls, firstFailure>>

\* gather takes the next finished task, a failed one, and raises its
\* exception: the except branch cancels every task and re-raises.
GatherExcept ==
    /\ pc = "gather"
    /\ started = Len(tasks)
    /\ completionQ # <<>>
    /\ tasks[completionQ[Observed(completionQ)]].state = "failed"
    /\ completionQ' = RemoveAt(completionQ, Observed(completionQ))
    /\ tasks' = CancelAll(tasks)
    /\ cancelCalls' = cancelCalls + 1
    /\ error' = ErrorOf(tasks[completionQ[Observed(completionQ)]])
    /\ pc' = "except"
    /\ UNCHANGED <<args, capacity, runNo, resolutions, resIdx, started, sem, waiters,
                   nresults, cache, atlases, requests, cacheAtStart, firstFailure>>

\* Mutant of Propagate: main swallows the failure and goes on to the next
\* resolution.
PropagateAndContinue ==
    /\ pc = "except"
    /\ pc' = "for"
    /\ resIdx' = resIdx + 1
    /\ UNCHANGED <<args, capacity, runNo, resolutions, error, cache, atlases>>
    /\ UNCHANGED gridVars

\* The re-raised exception leaves `async with ClientSession` and
\* download_all_tiles, and main does not catch it. Nothing awaits the
\* cancelled tasks: closing the session may or may not let them run first, so
\* their unwinding interleaves freely with this step.
Propagate ==
    /\ pc = "except"
    /\ pc' = "raised"
    /\ UNCHANGED <<args, capacity, runNo, resolutions, resIdx, error, cache, atlases>>
    /\ UNCHANGED gridVars

\* gather has every result: download_all_tiles returns to main.
GatherReturn ==
    /\ pc = "gather"
    /\ started = Len(tasks)
    /\ nresults = Len(tasks)
    /\ pc' = "glue"
    /\ UNCHANGED <<args, capacity, runNo, resolutions, resIdx, error, cache, atlases>>
    /\ UNCHANGED gridVars

\* ----------------------------------------------------------- glue_tiles
\* The tiles glue_tiles opens, in its order (x outer, y inner).
GlueOrder(tiles_dir, resolution) ==
    LET grid_size == Pow2(resolution)
    IN  Flatten([i \in 1..grid_size |->
                   [j \in 1..grid_size |-> GlueTilePath(tiles_dir, i - 1, j - 1)]])

\* Mutant of FirstMissing: a missing tile is passed over (left blank).
FirstMissingBlank(c, order) == None

\* The first tile Image.open does not find, or None.
FirstMissing(c, order) ==
    IF \E i \in 1..Len(order) : ~Exists(c, order[i])
    THEN <<order[CHOOSE i \in 1..Len(order) :
                   ~Exists(c, order[i]) /\ \A j \in 1..(i - 1) : Exists(c, order[j])]>>
    ELSE None

\* The first tile of the order that is a file but not a whole image, or None.
FirstUndecodable(c, order) ==
    LET Bad(i) == Exists(c, order[i]) /\ c[File(order[i])][1] # "webp"
    IN  IF \E i \in 1..Len(order) : Bad(i)
        THEN <<order[CHOOSE i \in 1..Len(order) :
                       Bad(i) /\ \A j \in 1..(i - 1) : ~Bad(j)]>>
        ELSE None

\* The tiles glue_tiles opens before the missing one (all of them when none is).
Before(order, missing) ==
    IF missing = None
    THEN order
    ELSE SubSeq(order, 1, (CHOOSE i \in 1..Len(order) : order[i] = missing[1]) - 1)

\* glue_tiles for the resolution just downloaded: every tile is pasted and
\* the atlas saved, or Image.open raises at the first tile that is missing
\* or is not a whole image.
GlueTiles ==
    /\ pc = "glue"
    /\ LET res == resolutions[resIdx]
           order == GlueOrder(CurrentMapTilesDir(args, res), res)
           missing == FirstMissing(cache, order)
           broken == FirstUndecodable(cache, Before(order, missing))
       IN  IF broken # None
           THEN /\ error' = <<KeyOf(File(broken[1])).x, KeyOf(File(broken[1])).y,
                             "UnidentifiedImageError">>
                /\ pc' = "raised"
                /\ UNCHANGED atlases
           ELSE IF missing = None
           THEN /\ atlases' = atlases \cup {AtlasPath(args.version, args.map_type, Pow2(res))}
                /\ pc' = "rmtree"
                /\ UNCHANGED error
           ELSE /\ error' = <<KeyOf(File(missing[1])).x, KeyOf(File(missing[1])).y,
                             "FileNotFoundError">>
                /\ pc' = "raised"
                /\ UNCHANGED atlases
    /\ UNCHANGED <<args, capacity, runNo, resolutions, resIdx, cache>>
    /\ UNCHANGED gridVars

\* The file is somewhere below the directory the path string names.
Under(f, dir) ==
    LET d == File(dir)
    IN  /\ f[1] = d[1]
        /\ Len(d[2]) <= Len(f[2])
        /\ SubSeq(f[2], 1, Len(d[2])) = d[2]

\* shutil.rmtree(tmp_dir): every file below tmp_dir is deleted.
RmTreeTmpDir(c, tmp_dir) ==
    [f \in DOMAIN c |-> IF Under(f, tmp_dir) THEN NoFile ELSE c[f]]

\* The cleanup after glue_tiles, and on to the next resolution;
\* shutil.rmtree("") raises (os.lstat("") finds no file).
RmTree ==
    /\ pc = "rmtree"
    /\ IF args.tmp_dir = <<>>
       THEN /\ error' = <<-1, -1, "FileNotFoundError">>
            /\ pc' = "raised"
            /\ UNCHANGED <<cache, resIdx>>
       ELSE /\ cache' = RmTreeTmpDir(cache, args.tmp_dir)
            /\ resIdx' = resIdx + 1
            /\ pc' = "for"
            /\ UNCHANGED error
    /\ UNCHANGED <<args, capacity, runNo, resolutions, atlases>>
    /\ UNCHANGED gridVars

\* asyncio.run(main()) ended with the exception, after the cancelled tasks
\* finished; the user runs the same command line again on the same disk.
Rerun ==
    /\ pc = "raised"
    /\ runNo < MaxRuns
    /\ \A i \in 1..Len(tasks) : Terminated(tasks[i])
    /\ runNo' = runNo + 1
    /\ pc' = "main"
    /\ resolutions' = <<>>
    /\ resIdx' = 1
    /\ error' = None
    /\ tasks' = <<>>
    /\ started' = 0
    /\ sem' = capacity
    /\ waiters' = <<>>
    /\ completionQ' = <<>>
    /\ nresults' = 0
    /\ requests' = {}
    /\ cacheAtStart' = cache
    /\ cancelCalls' = 0
    /\ firstFailure' = 0
    /\ UNCHANGED <<args, capacity, cache, atlases>>

Woken == \E t \in 1..Len(tasks) : WokenStep(t)
Response == \E t \in 1..Len(tasks) : \E resp \in GetResponses : GetResponse(t, resp)
BodyRead == \E t \in 1..Len(tasks) : \E res \in ReadResults : ReadDone(t, res)
Cancelled == \E t \in 1..Len(tasks) : CancelDeliver(t)

\* One run of the program, from any command line and any tmp_dir.
Next ==
    \/ Main
    \/ DownloadAllTiles
    \/ StartTask
    \/ Woken
    \/ Response
    \/ BodyRead
    \/ Cancelled
    \/ GatherResult
    \/ GatherExcept
    \/ Propagate
    \/ GatherReturn
    \/ GlueTiles
    \/ RmTree

Spec == Init /\ [][Next]_vars

\* A run from an empty tmp_dir and, when it is aborted, its re-runs.
InitResume ==
    /\ Init
    /\ \A p \in DOMAIN cache : cache[p] = NoFile

NextResume ==
    \/ Next
    \/ Rerun

SpecResume == InitResume /\ [][NextResume]_vars

\* Fair scheduling: the event loop runs every task that is ready to run and
\* main whenever it can go on, and every request in flight ends (with an
\* answer, an error, or the timeout of ClientTimeout(total=30)).
MaxTasks == MaxGridSize * MaxGridSize
TaskFairness(t) ==
    /\ WF_vars(t \in 1..Len(tasks) /\ WokenStep(t))
    /\ WF_vars(t \in 1..Len(tasks) /\ \E resp \in GetResponses : GetResponse(t, resp))
    /\ WF_vars(t \in 1..Len(tasks) /\ \E res \in ReadResults : ReadDone(t, res))
    /\ WF_vars(t \in 1..Len(tasks) /\ CancelDeliver(t))
Fairness ==
    /\ WF_vars(Main)
    /\ WF_vars(DownloadAllTiles)
    /\ WF_vars(StartTask)
    /\ \A t \in 1..MaxTasks : TaskFairness(t)
    /\ WF_vars(GatherResult)
    /\ WF_vars(GatherExcept)
    /\ WF_vars(Propagate)
    /\ WF_vars(GatherReturn)
    /\ WF_vars(GlueTiles)
    /\ WF_vars(RmTree)

\* The runs from an empty tmp_dir behind a gate of one or two permits,
\* fairly scheduled.
InitFair ==
    /\ InitResume
    /\ capacity \in {1, 2}

SpecFair == InitFair /\ [][Next]_vars /\ Fairness

\* The process is killed (SIGKILL, power loss) while a task is inside
\* `with open(out_path, "wb") as f: f.write(data)`: the file was created at
\* out_path and holds only part of the body.
KilledInWrite ==
    \E t \in 1..Len(tasks) :
        /\ started = Len(tasks)
        /\ tasks[t].state = "read"
        /\ ~tasks[t].cancel
        /\ cache' = WriteFile(cache, TaskOutPath(tasks[t]),
                              Truncated(BodyOf(TaskUrl(tasks[t]))))
        /\ pc' = "killed"
        /\ UNCHANGED <<args, capacity, runNo, resolutions, resIdx, error, atlases>>
        /\ UNCHANGED gridVars

\* The user runs the same command line again on the disk the killed
\* process left.
Restart ==
    /\ pc = "killed"
    /\ runNo < MaxRuns
    /\ runNo' = runNo + 1
    /\ pc' = "main"
    /\ resolutions' = <<>>
    /\ resIdx' = 1
    /\ error' = None
    /\ tasks' = <<>>
    /\ started' = 0
    /\ sem' = capacity
    /\ waiters' = <<>>
    /\ completionQ' = <<>>
    /\ nresults' = 0
    /\ requests' = {}
    /\ cacheAtStart' = cache
    /\ cancelCalls' = 0
    /\ firstFailure' = 0
    /\ UNCHANGED <<args, capacity, cache, atlases>>

\* A run of --resolution 1 from an empty tmp_dir behind a gate of two
\* permits, killed during a write or not, and the run after the kill.
InitCrash ==
    /\ InitResume
    /\ capacity = 2
    /\ args.resolution = <<1>>

NextCrash ==
    \/ Next
    \/ KilledInWrite
    \/ Restart

SpecCrash == InitCrash /\ [][NextCrash]_vars

\* A run of --resolution 1 with each explored --tmp-dir, from an empty disk
\* behind a gate of two permits.
TmpDirChoices == { [CommandLine(<<1>>, None) EXCEPT !.tmp_dir = d] : d \in TmpDirs }
InitTmpDir ==
    /\ InitOf(TmpDirChoices)
    /\ capacity = 2
    /\ \A f \in DOMAIN cache : cache[f] = NoFile

SpecTmpDir == InitTmpDir /\ [][Next]_vars

\* glue_tiles and the cleanup alone, called for any resolution of a command
\* line over any tmp_dir, complete or not.
InitGlue ==
    /\ Init
    /\ capacity = MAX_CONCURRENT
    /\ ~(NotInt(args.resolution) /\ NotList(args.resolution_range))

EnterGlue ==
    /\ pc = "main"
    /\ pc' = "glue"
    /\ resolutions' =
         IF ~NotList(args.resolution_range)
         THEN RangeFromTo(args.resolution_range[1], args.resolution_range[2] + 1)
         ELSE <<args.resolution[1]>>
    /\ resIdx' \in 1..Len(resolutions')
    /\ UNCHANGED <<args, capacity, runNo, error, cache, atlases>>
    /\ UNCHANGED gridVars

NextGlue ==
    \/ EnterGlue
    \/ GlueTiles
    \/ RmTree

SpecGlue == InitGlue /\ [][NextGlue]_vars

\* ================================================================ claims
\* The file is on the disk c.
HasFile(c, p) == c[p] # NoFile
\* The file the task's out_path names.
TaskFile(task) == File(TaskOutPath(task))
TaskSet == 1..Len(tasks)
FailedTasks == {t \in TaskSet : tasks[t].state = "failed"}
CancelledTasks == {t \in TaskSet : tasks[t].state = "cancelled"}
CompletedTasks == {t \in TaskSet : tasks[t].outcome = "Completed"}
InFlight == {t \in TaskSet : InNetworkPhase(tasks[t])}
\* The exception is a tile fetch failure raised out of the grid run.
FetchFailed == error # None /\ error[3] # "FileNotFoundError"
\* The grid run failed and every one of its tasks has ended.
RunOver == pc = "raised" /\ FetchFailed /\ \A t \in TaskSet : Terminated(tasks[t])
\* The paths of the grid of the resolution being run.
GridPaths ==
    { TaskFile(NewTask(resolutions[resIdx], x, y)) :
        x \in 0..(Pow2(resolutions[resIdx]) - 1),
        y \in 0..(Pow2(resolutions[resIdx]) - 1) }
\* main is inside the grid run of resolutions[resIdx], or just past it.
InGridRun == pc \in {"gather", "except", "raised", "glue", "rmtree"}

\* C1: in every reachable state the number of tile tasks inside their network
\* phase (permit acquired, request or body read in flight) is at most the gate
\* capacity, for every explored capacity and every interleaving of task
\* steps, failures and cancellations.
C1_GateBound == Cardinality(InFlight) <= capacity

\* C1 witness: the gate is full and a task is queued behind it.
C1_Witness ==
    /\ Cardinality(InFlight) = capacity
    /\ \E t \in TaskSet : tasks[t].state = "waiting"

\* C2 as stated: after a run in which exactly one fetch failed, the failure
\* is the one reported, no cache entry exists at the failed coordinate nor at
\* the coordinate of any cancelled task, and the entries the run created are
\* exactly those of the tasks that completed their write.
C2_Original ==
    (RunOver /\ Cardinality(FailedTasks) = 1) =>
        /\ \A t \in FailedTasks : error = ErrorOf(tasks[t])
        /\ \A t \in FailedTasks \cup CancelledTasks :
               ~HasFile(cache, TaskFile(tasks[t]))
        /\ {p \in DOMAIN cache : cache[p] # cacheAtStart[p]} =
               {TaskFile(tasks[t]) : t \in CompletedTasks}

C2_FinalState ==
    (RunOver /\ Cardinality(FailedTasks) = 1) =>
        /\ \A t \in FailedTasks : error = ErrorOf(tasks[t])
        /\ \A t \in FailedTasks : ~HasFile(cache, TaskFile(tasks[t]))
        /\ \A t \in CancelledTasks :
               cache[TaskFile(tasks[t])] = cacheAtStart[TaskFile(tasks[t])]
        /\ {p \in DOMAIN cache : cache[p] # cacheAtStart[p]} =
               {TaskFile(tasks[t]) : t \in CompletedTasks}

\* C2 amended: after a run in which exactly one fetch failed, the failure is
\* the one reported, no cache entry exists at the failed coordinate, the path
\* of every cancelled task holds what it held when the run started (no entry
\* created by the run), the entries the run created are exactly those of the
\* tasks that completed their write, and no write happens once cancellation
\* has been requested.
C2_Amended ==
    /\ []C2_FinalState
    /\ [][cancelCalls >= 1 => cache' = cache]_vars

\* C2 witness: a failed run is over with one failed task, a task that wrote
\* its tile, and a cancelled task whose tile was cached before the run.
C2_Witness ==
    /\ RunOver
    /\ Cardinality(FailedTasks) = 1
    /\ CompletedTasks # {}
    /\ \E t \in CancelledTasks : HasFile(cache, TaskFile(tasks[t]))

\* C3 as stated: when the failure of a grid run reaches the caller, every
\* tile task of the run has terminated (completed, failed or cancelled).
C3_SiblingsAwaited ==
    (pc = "raised" /\ FetchFailed) => \A t \in TaskSet : Terminated(tasks[t])

\* C4: the failure propagated out of a grid run is the first failure of the
\* run, the one the scheduler observed first; the siblings are cancelled
\* exactly once, on that failure; a later failure never replaces the reason.
C4_FirstFailureWins ==
    /\ [](cancelCalls <= 1)
    /\ [](FetchFailed => (cancelCalls = 1 /\ firstFailure \in TaskSet
                          /\ error = ErrorOf(tasks[firstFailure])))
    /\ [][(FetchFailed /\ runNo' = runNo) => error' = error]_vars

\* C4 witness: two fetches failed for different reasons and one was propagated.
C4_Witness ==
    /\ FetchFailed
    /\ \E t, u \in FailedTasks : tasks[t].outcome # tasks[u].outcome

\* C5: a grid run started on a cache that holds every tile of the grid issues
\* no request, leaves the cache as it was and does not fail; and a task whose
\* tile is cached never issues a request: when it runs its check it returns
\* Skipped (it can only end otherwise by being cancelled while queued).
FullAtStart == \A p \in GridPaths : HasFile(cacheAtStart, p)
C5_FullCacheNoRequests ==
    /\ (InGridRun /\ FullAtStart) =>
          /\ requests = {}
          /\ cache = cacheAtStart
          /\ pc \notin {"except", "raised"}
          /\ \A t \in 1..started : tasks[t].outcome = "Skipped"
    /\ InGridRun =>
          \A t \in TaskSet :
              HasFile(cacheAtStart, TaskFile(tasks[t])) =>
                  /\ TaskUrl(tasks[t]) \notin requests
                  /\ tasks[t].state \in {"created", "waiting", "woken", "done", "cancelled"}
                  /\ tasks[t].state = "done" => tasks[t].outcome = "Skipped"

\* C5 witness: a grid run over a fully cached four-tile grid has returned.
C5_Witness ==
    /\ pc = "glue"
    /\ Len(tasks) > 1
    /\ FullAtStart
    /\ \A t \in TaskSet : tasks[t].outcome = "Skipped"

\* C6: idempotent resume. A grid run that returns normally leaves one entry
\* per coordinate holding the tile served for it, whether it is the first run
\* or the re-run of an aborted one; and a re-run requests exactly the
\* coordinates that had no cache entry when it started.
UrlOfPath(p) == UrlOfFile(p)
C6_IdempotentResume ==
    pc = "glue" =>
        /\ \A p \in GridPaths : cache[p] = BodyOf(UrlOfPath(p))
        /\ runNo >= 2 =>
              requests = {UrlOfPath(p) : p \in {q \in GridPaths : ~HasFile(cacheAtStart, q)}}

\* C6 witness: the re-run of an aborted run has returned normally, having
\* skipped a tile the aborted run cached and fetched another.
C6_Witness ==
    /\ runNo >= 2
    /\ pc = "glue"
    /\ \E t \in TaskSet : tasks[t].outcome = "Skipped"
    /\ \E t \in TaskSet : tasks[t].outcome = "Completed"

\* C7: a grid run for resolution r launches exactly (2^r)^2 tile tasks, one
\* for each coordinate (x, y) with 0 <= x, y < 2^r, none twice and none
\* outside that range.
C7_LaunchesWholeGrid ==
    InGridRun =>
        LET g == Pow2(resolutions[resIdx])
        IN  /\ Len(tasks) = g * g
            /\ \A t \in TaskSet : tasks[t].x \in 0..(g - 1) /\ tasks[t].y \in 0..(g - 1)
            /\ \A t, u \in TaskSet :
                   (tasks[t].x = tasks[u].x /\ tasks[t].y = tasks[u].y) => t = u
            /\ \A x, y \in 0..(g - 1) :
                   \E t \in TaskSet : tasks[t].x = x /\ tasks[t].y = y

\* C7 witness: the four tasks of resolution 1 have all been started.
C7_Witness ==
    /\ pc = "gather"
    /\ resolutions[resIdx] = 1
    /\ started = 4

\* C8 as stated: the pre-flight user-input error is raised only when no
\* resolution selector was supplied (so --resolution 0 is processed).
C8_ErrorOnlyWithoutSelector ==
    pc = "SystemExit" => (args.resolution = None /\ args.resolution_range = None)

\* C9: once a grid run has failed, the failure goes straight out of main: no
\* fetch is started any more, no task of a later resolution is created, no
\* atlas is composed and no cleanup runs, so the cache stays as the failed
\* run left it.
C9_FailureAbortsBatch ==
    [][(error # None /\ runNo' = runNo) =>
          /\ pc' \in {"except", "raised"}
          /\ error' = error
          /\ resIdx' = resIdx
          /\ Len(tasks') = Len(tasks)
          /\ requests' = requests
          /\ atlases' = atlases
          /\ cache' = cache]_vars

\* C9 witness: the first resolution of a range failed, its tasks have ended,
\* and a later resolution was still to come.
C9_Witness ==
    /\ RunOver
    /\ resIdx < Len(resolutions)

\* C10 as stated: the cleanup after composing resolution r deletes only
\* files of the cache directory of (gameVersion, mapType, r).
C10_CleanupOnlyOwnTree ==
    [][\A p \in DOMAIN cache :
          (cache[p] # NoFile /\ cache'[p] = NoFile) =>
              Under(p, CurrentMapTilesDir(args, resolutions[resIdx]))]_vars

\* C11: glue_tiles over a cache in which a tile of the grid is missing fails
\* with the missing-file error and saves no atlas: no blank tile stands in
\* for the missing one and no partly composed canvas is written.
ComposerPaths ==
    { File(GlueTilePath(CurrentMapTilesDir(args, resolutions[resIdx]), x, y)) :
        x \in 0..(Pow2(resolutions[resIdx]) - 1),
        y \in 0..(Pow2(resolutions[resIdx]) - 1) }
C11_MissingTileFails ==
    [][(pc = "glue" /\ \E p \in ComposerPaths : ~HasFile(cache, p)) =>
          /\ pc' = "raised"
          /\ error' # None
          /\ error'[3] = "FileNotFoundError"
          /\ atlases' = atlases
          /\ cache' = cache]_vars

\* C11 witness: glue_tiles has failed on a four-tile grid of which some tiles
\* were there and one was missing, and no atlas was saved.
C11_Witness ==
    /\ pc = "raised"
    /\ error # None
    /\ error[3] = "FileNotFoundError"
    /\ Pow2(resolutions[resIdx]) = 2
    /\ \E p \in ComposerPaths : HasFile(cache, p)
    /\ atlases = {}

\* C12: a fetch answered with a non-2xx status or with a content type other
\* than image/webp ends failed with the matching error and creates no cache
\* entry; every entry the grid run creates is the path of a task whose
\* answer was 2xx with the image content type, and only such a task reads a
\* body.
CreatedPaths == { p \in DOMAIN cache : cache[p] # cacheAtStart[p] }
C13_NoHalfWrittenFile ==
    /\ \A p \in DOMAIN cache : cache[p] \in {NoFile, FileBody(p)}
    /\ InGridRun =>
          \A t \in TaskSet :
              tasks[t].outcome = "Skipped" =>
                  cache[TaskFile(tasks[t])] = FileBody(TaskFile(tasks[t]))

\* C14: from the moment cancellation is requested for a task, the only step
\* the task takes is the one that delivers the cancellation: its state stays
\* as it is or becomes cancelled, its URL is not requested if it was not
\* already, and the file at its path is not touched.
C14_CancelledTaskDoesNothing ==
    [][\A t \in TaskSet :
          (tasks[t].cancel /\ Len(tasks') = Len(tasks)) =>
              /\ tasks'[t].state \in {tasks[t].state, "cancelled"}
              /\ tasks'[t].cancel
              /\ TaskUrl(tasks[t]) \in requests' => TaskUrl(tasks[t]) \in requests
              /\ cache'[TaskFile(tasks[t])] = cache[TaskFile(tasks[t])]]_vars

\* C14 witness: cancellation was delivered to a task whose body read was in
\* flight and to a task that had not got through the gate: the first wrote
\* no file, the second requested nothing.
C14_Witness ==
    /\ \E t \in CancelledTasks :
          /\ tasks[t].response = "ok"
          /\ TaskUrl(tasks[t]) \in requests
          /\ ~HasFile(cache, TaskFile(tasks[t]))
    /\ \E t \in CancelledTasks :
          /\ TaskUrl(tasks[t]) \notin requests
          /\ ~HasFile(cache, TaskFile(tasks[t]))

\* C15: under fair scheduling, with every request in flight ending, a task
\* queued at the gate does not wait for ever: it gets a permit and enters
\* the gated body, or fail-fast cancels it.
PastTheGate(t) ==
    /\ t \in TaskSet
    /\ tasks[t].state \in {"woken", "get", "read", "done", "failed", "cancelled"}
C15_StarvationFree ==
    \A t \in 1..MaxTasks :
        (t \in TaskSet /\ tasks[t].state = "waiting") ~> PastTheGate(t)

\* C15 witness: the last task of a four-tile grid, queued behind a gate of
\* one permit, has got its permit and issued its request.
C15_Witness ==
    /\ capacity = 1
    /\ Len(tasks) = 4
    /\ tasks[4].state = "get"
    /\ \A t \in 1..3 : tasks[t].state = "done"

\* C16: the tasks of a grid run have pairwise distinct paths, and a file
\* that is in the cache keeps its content in every step but the cleanup
\* (rmtree): no task writes over a file that is there, whether an earlier
\* run or a task of this run wrote it.
C16_WrittenOnceNeverMutated ==
    /\ [](\A t \in TaskSet : \A u \in TaskSet :
            t # u => TaskFile(tasks[t]) # TaskFile(tasks[u]))
    /\ [][pc # "rmtree" =>
            \A p \in DOMAIN cache : HasFile(cache, p) => cache'[p] = cache[p]]_vars

\* C16 witness: in one grid run of four tasks a task has written its tile, a
\* task has found its tile in the cache and skipped it, and that tile is
\* the file the run started with.
C16_Witness ==
    /\ InGridRun
    /\ Len(tasks) = 4
    /\ \E t \in TaskSet :
          /\ tasks[t].outcome = "Completed"
          /\ HasFile(cache, TaskFile(tasks[t]))
          /\ ~HasFile(cacheAtStart, TaskFile(tasks[t]))
    /\ \E t \in TaskSet :
          /\ tasks[t].outcome = "Skipped"
          /\ HasFile(cacheAtStart, TaskFile(tasks[t]))
          /\ cache[TaskFile(tasks[t])] = cacheAtStart[TaskFile(tasks[t])]

\* C17 as stated: when download_all_tiles has returned normally (main is about to
\* call glue_tiles, or has called it), every path glue_tiles opens for the
\* grid holds the whole tile, and glue_tiles never raises for a missing
\* tile after a grid run.
C17_NormalReturnCompleteCache ==
    /\ pc = "glue" =>
          /\ Len(tasks) = Pow2(resolutions[resIdx]) * Pow2(resolutions[resIdx])
          /\ \A t \in TaskSet : tasks[t].outcome \in {"Completed", "Skipped"}
          /\ \A p \in ComposerPaths : HasFile(cache, p) /\ cache[p] = FileBody(p)
    /\ ~(error # None /\ error[3] = "FileNotFoundError")

\* C20 as stated: the directory main passes to glue_tiles is the directory
\* download_tile wrote the tiles of the key into, and glue_tiles opens tile
\* (x, y) at the file download_tile stored tile (x, y) in, for every
\* coordinate of the grid.
C20_ComposerReadsFetcherPaths ==
    InGridRun =>
        LET res == resolutions[resIdx]
        IN  /\ File(CurrentMapTilesDir(args, res))
                  = File(OutDir(args.tmp_dir, args.version, args.map_type, res))
            /\ \A x \in 0..(Pow2(res) - 1) : \A y \in 0..(Pow2(res) - 1) :
                  File(GlueTilePath(CurrentMapTilesDir(args, res), x, y))
                      = TaskFile(NewTask(res, x, y))

\* C18 as stated: the permits available plus the tasks inside the gated
\* region (the body of `async with sem`: request or body read in flight)
\* make up the gate capacity in every state.
C18_Original == sem + Cardinality(InFlight) = capacity

\* C18 amended: the permits available, plus the tasks inside the gated
\* region, plus the waiters that release() has woken and handed a permit
\* but that have not run yet, make up the capacity in every state; so when
\* every task of the grid run has ended, however it ended, all the permits
\* are back.
HandedPermit == {t \in TaskSet : tasks[t].state = "woken"}
C18_PermitConservation ==
    /\ sem + Cardinality(InFlight) + Cardinality(HandedPermit) = capacity
    /\ sem >= 0
    /\ (\A t \in TaskSet : Terminated(tasks[t])) => sem = capacity

\* C18 witness: a grid run behind a gate of two permits has ended with a
\* task completed, a task failed, a task cancelled while fetching and a task
\* cancelled before it got a permit, and both permits are back.
C18_Witness ==
    /\ capacity = 2
    /\ sem = 2
    /\ \A t \in TaskSet : Terminated(tasks[t])
    /\ \E t \in TaskSet : tasks[t].outcome = "Completed"
    /\ \E t \in FailedTasks : TRUE
    /\ \E t \in CancelledTasks : TaskUrl(tasks[t]) \in requests
    /\ \E t \in CancelledTasks : TaskUrl(tasks[t]) \notin requests

\* C19: under fair scheduling, with every request in flight ending, a grid
\* run that has created its tasks ends: download_all_tiles returns to main
\* or its exception goes out of main; and every task whose cancellation
\* was requested ends.
C19_GridRunTerminates ==
    /\ (pc = "gather") ~> (pc \in {"glue", "raised"})
    /\ \A t \in 1..MaxTasks :
          (t \in TaskSet /\ tasks[t].cancel) ~> (t \in TaskSet /\ Terminated(tasks[t]))

\* C19 witness: a grid run of four tiles behind a gate of one permit has
\* returned normally, every tile fetched in its turn.
C19_Witness ==
    /\ pc = "glue"
    /\ capacity = 1
    /\ Len(tasks) = 4
    /\ \A t \in TaskSet : tasks[t].outcome = "Completed"

====
